---------------------------- MODULE Spec2Model ----------------------------
(***************************************************************************)
(* sanic_babel: per-request resolution and caching of locale, timezone and *)
(* translation catalog, the scoped locale override, the translation        *)
(* functions and the lazy translated string.                               *)
(*                                                                         *)
(* Python values are tagged records, so that None, strings and objects can *)
(* be compared with one another.  A request is the dict of its three       *)
(* babel_* keys; a key that is not in the dict holds Absent.               *)
(***************************************************************************)
EXTENDS Integers, Sequences, FiniteSets, TLC

VARIABLES
    config,                  \* app.config
    locale_selector_func,    \* Babel.locale_selector_func
    timezone_selector_func,  \* Babel.timezone_selector_func
    the_locale,              \* what a registered locale selector returns now
    the_timezone,            \* what a registered timezone selector returns now
    request,                 \* request name -> dict of the babel_* keys
    babel_translations,      \* app.babel_translations: Locale -> catalog
    loads,                   \* catalog objects constructed so far
    blocks,                  \* the open force_locale blocks, innermost last
    first_selector,          \* history: first selector registered, per purpose
    refused,                 \* history: purposes a registration was refused for
    exited,                  \* history: how the last force_locale block was left
    resolved,                \* history: per request and key, the value the last
                             \* resolution returned since the last invalidation
    date_formats,            \* Babel.date_formats
    lazy,                    \* the lazy string the application holds, if any
    original,                \* the lazy string that one was unpickled from, if any
    call,                    \* the translation or lazy-string call made last
    result                   \* what that call returned (or raised)

vars == <<config, locale_selector_func, timezone_selector_func, the_locale,
          the_timezone, request, babel_translations, loads, blocks,
          first_selector, refused, exited, resolved, date_formats, lazy,
          original, call, result>>

\* the variables of the translation functions and of the lazy string
text_vars == <<lazy, original, call, result>>

(***************************************************************************)
(* Bounds                                                                  *)
(***************************************************************************)
MaxDepth == 2       \* force_locale blocks open at once
MaxLoads == 4       \* catalog objects constructed
MaxNum == 2         \* counts passed to the plural translation functions
MaxCalls == 2       \* calls of one lazy string with a request

NoRequest == "no request"            \* request=None
Requests == DOMAIN request           \* the requests being handled
RequestArgs == Requests \cup {NoRequest}

(***************************************************************************)
(* Python values                                                           *)
(***************************************************************************)
None == [t |-> "None"]
Absent == [t |-> "Absent"]
Str(s) == [t |-> "str", s |-> s]
Raise(e) == [t |-> "raise", exc |-> e]

\* dict.get(key, None)
Get(d, key) == IF d[key] = Absent THEN None ELSE d[key]

Keys == {"babel_locale", "babel_tzinfo", "babel_translations"}
EmptyRequest == [k \in Keys |-> Absent]

(***************************************************************************)
(* babel.Locale and pytz timezones                                         *)
(***************************************************************************)
Locale(language, territory) ==
    [t |-> "Locale", language |-> language, territory |-> territory]

LocaleIds == {"en", "de_DE", "en_US", "fr"}

\* Locale.parse(identifier): the identifier split at its separator
LocaleParse(ident) ==
    CASE ident = Str("en")    -> Locale("en", "")
      [] ident = Str("de_DE") -> Locale("de", "DE")
      [] ident = Str("en_US") -> Locale("en", "US")
      [] ident = Str("fr")    -> Locale("fr", "")

\* str(locale)
LocaleStr(l) ==
    IF l.territory = "" THEN l.language
    ELSE CASE l = Locale("de", "DE") -> "de_DE"
           [] l = Locale("en", "US") -> "en_US"

Locales == {LocaleParse(Str(i)) : i \in LocaleIds}

TimezoneIds == {"UTC", "Europe/Vienna"}

\* pytz.timezone(name)
timezone(name) == [t |-> "tzinfo", zone |-> name.s]

UTC == [t |-> "tzinfo", zone |-> "UTC"]

(***************************************************************************)
(* Selector functions: a function the application registered returns what  *)
(* its closure variable holds at the call; the lambda force_locale         *)
(* installs returns the locale force_locale was given.                     *)
(***************************************************************************)
Func(name) == [t |-> "function", name |-> name]
Lambda(locale) == [t |-> "lambda", locale |-> locale]

LocaleSelectors == {Func("select_locale"), Func("select_locale_2")}
TimezoneSelectors == {Func("select_timezone"), Func("select_timezone_2")}

Call(f, closure) == IF f.t = "lambda" THEN f.locale ELSE closure

(***************************************************************************)
(* Babel.default_locale, Babel.default_timezone                            *)
(***************************************************************************)
default_locale(cfg) == LocaleParse(Str(cfg.BABEL_DEFAULT_LOCALE))

default_timezone(cfg) == timezone(Str(cfg.BABEL_DEFAULT_TIMEZONE))

(***************************************************************************)
(* get_locale, get_timezone: the value returned and the request dict left  *)
(* behind.  d is the request's dict, or None when there is no request.     *)
(***************************************************************************)
\* get_locale resolving on every call, whatever the request has cached
get_locale_of_uncached(d, cfg, selector, closure) ==
    IF d = None THEN [rv |-> LocaleParse(Str("en")), d |-> d]
    ELSE LET locale ==
               IF selector = None THEN default_locale(cfg)
               ELSE LET rv == Call(selector, closure) IN
                    IF rv = None THEN default_locale(cfg)
                    ELSE LocaleParse(rv)
         IN [rv |-> locale, d |-> [d EXCEPT !.babel_locale = locale]]

get_locale_of(d, cfg, selector, closure) ==
    IF d = None THEN [rv |-> LocaleParse(Str("en")), d |-> d]
    ELSE LET cached == Get(d, "babel_locale") IN
         IF cached # None THEN [rv |-> cached, d |-> d]
         ELSE LET locale ==
                    IF selector = None THEN default_locale(cfg)
                    ELSE LET rv == Call(selector, closure) IN
                         IF rv = None THEN default_locale(cfg)
                         ELSE LocaleParse(rv)
              IN [rv |-> locale, d |-> [d EXCEPT !.babel_locale = locale]]

\* get_timezone parsing whatever the selector returns, also a timezone object
get_timezone_of_parsing_all(d, cfg, selector, closure) ==
    IF d = None THEN [rv |-> UTC, d |-> d]
    ELSE LET cached == Get(d, "babel_tzinfo") IN
         IF cached # None THEN [rv |-> cached, d |-> d]
         ELSE LET tzinfo ==
                    IF selector = None THEN default_timezone(cfg)
                    ELSE LET rv == Call(selector, closure) IN
                         IF rv = None THEN default_timezone(cfg)
                         ELSE [t |-> "tzinfo", zone |-> rv.t]
              IN [rv |-> tzinfo, d |-> [d EXCEPT !.babel_tzinfo = tzinfo]]

get_timezone_of(d, cfg, selector, closure) ==
    IF d = None THEN [rv |-> UTC, d |-> d]
    ELSE LET cached == Get(d, "babel_tzinfo") IN
         IF cached # None THEN [rv |-> cached, d |-> d]
         ELSE LET tzinfo ==
                    IF selector = None THEN default_timezone(cfg)
                    ELSE LET rv == Call(selector, closure) IN
                         IF rv = None THEN default_timezone(cfg)
                         ELSE IF rv.t = "str" THEN timezone(rv)
                         ELSE rv
              IN [rv |-> tzinfo, d |-> [d EXCEPT !.babel_tzinfo = tzinfo]]


(***************************************************************************)
(* Translation catalogs.  A catalog object carries the identity it got     *)
(* when it was constructed (id), the .mo files merged into it, in merge    *)
(* order, and its plural rule.                                             *)
(***************************************************************************)
DefaultPlural == "n != 1"      \* babel.support.NullTranslations.plural

NullTranslations ==
    [t |-> "NullTranslations", id |-> 0, files |-> <<>>, plural |-> DefaultPlural]

\* support.Translations(): an empty catalog, a new object
Translations(id) ==
    [t |-> "Translations", id |-> id, files |-> <<>>, plural |-> DefaultPlural]

\* The compiled catalogs on disk, <dirname>/<folder>/LC_MESSAGES/messages.mo:
\* the plural rule of the file's header, or None where there is no file.
MoFile(dirname, folder) ==
    CASE dirname \in {"translations", "renamed_translations"} /\ folder = "de"
            -> [plural |-> "n != 1"]
      [] dirname = "plural_translations" /\ folder = "fr"
            -> [plural |-> "n > 1"]
      [] OTHER -> None

\* support.Translations.load(dirname, [locale]): the file of the locale's
\* full name, else of its language, else a NullTranslations.
Load(dirname, locale) ==
    LET folder == IF MoFile(dirname, LocaleStr(locale)) # None
                  THEN LocaleStr(locale) ELSE locale.language
        file == MoFile(dirname, folder)
    IN IF file = None THEN NullTranslations
       ELSE [t |-> "Translations", id |-> 0,
             files |-> <<[dirname |-> dirname, folder |-> folder]>>,
             plural |-> file.plural]

\* support.Translations.merge: only a catalog read from a file contributes
Merge(translations, catalog) ==
    IF catalog.t = "Translations"
    THEN [translations EXCEPT !.files = translations.files \o catalog.files]
    ELSE translations

\* Babel.translation_directories: the ';'-separated configuration value, split
translation_directories(cfg) == cfg.BABEL_TRANSLATION_DIRECTORIES

\* the loop of get_translations over the configured directories
RECURSIVE MergeDirectories(_, _, _)
MergeDirectories(translations, dirs, locale) ==
    IF dirs = <<>> THEN translations
    ELSE LET catalog == Load(Head(dirs), locale)
             merged == Merge(translations, catalog)
             \* hasattr(catalog, 'plural'): both catalog classes set it
             rebound == IF catalog.t \in {"Translations", "NullTranslations"}
                        THEN [merged EXCEPT !.plural = catalog.plural]
                        ELSE merged
         IN MergeDirectories(rebound, Tail(dirs), locale)

(***************************************************************************)
(* Messages are sequences of tokens: words, the escape "%%", the           *)
(* positional "%s" and the named placeholders "%(num)s", "%(name)s".       *)
(* The German catalogs of the tests translate what follows; their         *)
(* plural form 0 is the singular one.                                      *)
(***************************************************************************)
Text(toks) == [t |-> "str", toks |-> toks]

Yes == <<"Yes">>
Hello == <<"Hello", "%(name)s">>
Test == <<"Test", "%s">>
Percent == <<"100", "%%">>
Apple == <<"%(num)s", "Apple">>
Apples == <<"%(num)s", "Apples">>

\* the catalog of a .mo file: (context, msgid, plural form) -> translation
MoCatalog(file) ==
    IF file.folder = "de"
    THEN (<<"", Yes, 0>> :> <<"Ja">>)
         @@ (<<"", Hello, 0>> :> <<"Hallo", "%(name)s">>)
         @@ (<<"", Apple, 0>> :> <<"%(num)s", "Apfel">>)
         @@ (<<"", Apple, 1>> :> <<"%(num)s", "Aepfel">>)
    ELSE IF file.folder = "fr"
    THEN (<<"", Apple, 0>> :> <<"%(num)s", "pomme">>)
         @@ (<<"", Apple, 1>> :> <<"%(num)s", "pommes">>)
    ELSE <<>>

\* the catalog of a catalog object: the files merged, the later over the earlier
RECURSIVE Catalog(_)
Catalog(files) ==
    IF files = <<>> THEN <<>>
    ELSE MoCatalog(files[Len(files)]) @@ Catalog(SubSeq(files, 1, Len(files) - 1))

\* the plural form a rule selects for n
PluralForm(rule, n) ==
    CASE rule = "n != 1" -> IF n # 1 THEN 1 ELSE 0
      [] rule = "n > 1"  -> IF n > 1 THEN 1 ELSE 0

\* t.ugettext(message), t.upgettext(context, message)
upgettext(t, context, message) ==
    IF <<context, message, 0>> \in DOMAIN Catalog(t.files)
    THEN Catalog(t.files)[<<context, message, 0>>]
    ELSE message

ugettext(t, message) == upgettext(t, "", message)

\* t.ungettext(singular, plural, n), t.unpgettext(context, singular, plural, n)
unpgettext(t, context, singular, plural, n) ==
    IF <<context, singular, PluralForm(t.plural, n)>> \in DOMAIN Catalog(t.files)
    THEN Catalog(t.files)[<<context, singular, PluralForm(t.plural, n)>>]
    ELSE IF n = 1 THEN singular ELSE plural

ungettext(t, singular, plural, n) == unpgettext(t, "", singular, plural, n)

(***************************************************************************)
(* s % variables, variables a dict: "%%" gives "%", a named placeholder    *)
(* the value under its name (KeyError without one), "%s" the dict itself.  *)
(***************************************************************************)
NoVariables == [k \in {} |-> ""]

Placeholder(tok) ==
    CASE tok = "%(num)s"  -> "num"
      [] tok = "%(name)s" -> "name"
      [] OTHER            -> ""

Formatted(s, variables) ==
    IF \E i \in 1..Len(s) :
          Placeholder(s[i]) # "" /\ Placeholder(s[i]) \notin DOMAIN variables
    THEN Raise("KeyError")
    ELSE Text([i \in 1..Len(s) |->
                 CASE s[i] = "%%"           -> "%"
                   [] s[i] = "%s"           -> "{variables}"
                   [] Placeholder(s[i]) # "" -> variables[Placeholder(s[i])]
                   [] OTHER                 -> s[i]])

\* variables.setdefault('num', num)
WithNum(variables, num) ==
    IF "num" \in DOMAIN variables THEN variables
    ELSE variables @@ ("num" :> ToString(num))

(***************************************************************************)
(* gettext, ngettext, pgettext, npgettext on the catalog t that            *)
(* get_translations returned                                               *)
(***************************************************************************)
\* gettext substituting always
gettext_of_always_formatting(t, string, variables) ==
    Formatted(ugettext(t, string), variables)

\* gettext without the catalog: the source string
gettext_of_untranslated(t, string, variables) ==
    IF DOMAIN variables # {} THEN Formatted(string, variables) ELSE Text(string)

\* gettext substituting into the source string instead of the translation
gettext_of_formatting_source(t, string, variables) ==
    IF DOMAIN variables = {} THEN Text(ugettext(t, string))
    ELSE Formatted(string, variables)

gettext_of(t, string, variables) ==
    IF t = None
    THEN IF DOMAIN variables # {} THEN Formatted(string, variables)
         ELSE Text(string)
    ELSE LET s == ugettext(t, string)
         IN IF DOMAIN variables # {} THEN Formatted(s, variables) ELSE Text(s)

\* ngettext leaving num out of the variables
ngettext_of_without_num(t, singular, plural, num, variables) ==
    LET s == ungettext(t, singular, plural, num)
    IN IF DOMAIN variables = {} THEN Text(s) ELSE Formatted(s, variables)

ngettext_of(t, singular, plural, num, variables) ==
    LET mapping == WithNum(variables, num) IN
    IF t = None
    THEN LET s == IF num = 1 THEN singular ELSE plural
         IN IF DOMAIN mapping = {} THEN Text(s) ELSE Formatted(s, mapping)
    ELSE LET s == ungettext(t, singular, plural, num)
         IN IF DOMAIN mapping = {} THEN Text(s) ELSE Formatted(s, mapping)

pgettext_of(t, context, string, variables) ==
    IF t = None
    THEN IF DOMAIN variables = {} THEN Text(string)
         ELSE Formatted(string, variables)
    ELSE LET s == upgettext(t, context, string)
         IN IF DOMAIN variables = {} THEN Text(s) ELSE Formatted(s, variables)

npgettext_of(t, context, singular, plural, num, variables) ==
    LET mapping == WithNum(variables, num) IN
    IF t = None
    THEN LET s == IF num = 1 THEN singular ELSE plural
         IN IF DOMAIN mapping = {} THEN Text(s) ELSE Formatted(s, mapping)
    ELSE LET s == unpgettext(t, context, singular, plural, num)
         IN IF DOMAIN mapping = {} THEN Text(s) ELSE Formatted(s, mapping)

(***************************************************************************)
(* get_translations: the catalog returned, the request dict and the        *)
(* application's catalog cache left behind, and the number of catalog      *)
(* objects constructed so far.                                             *)
(***************************************************************************)
\* get_translations giving the catalog of the default locale without a request
get_translations_of_default_catalog(d, cfg, selector, closure, cache, n) ==
    IF d = None
    THEN [rv |-> MergeDirectories(Translations(0), translation_directories(cfg),
                                  default_locale(cfg)),
          d |-> d, cache |-> cache, n |-> n]
    ELSE LET cached == Get(d, "babel_translations") IN
         IF cached # None THEN [rv |-> cached, d |-> d, cache |-> cache, n |-> n]
         ELSE LET gl == get_locale_of(d, cfg, selector, closure)
                  locale == gl.rv
              IN IF locale \in DOMAIN cache
                 THEN [rv |-> cache[locale],
                       d |-> [gl.d EXCEPT !.babel_translations = cache[locale]],
                       cache |-> cache, n |-> n]
                 ELSE LET translations ==
                            MergeDirectories(Translations(n + 1),
                                             translation_directories(cfg), locale)
                      IN [rv |-> translations,
                          d |-> [gl.d EXCEPT !.babel_translations = translations],
                          cache |-> cache @@ (locale :> translations),
                          n |-> n + 1]

\* get_translations building the catalog without asking the cache
get_translations_of_reloading(d, cfg, selector, closure, cache, n) ==
    IF d = None THEN [rv |-> NullTranslations, d |-> d, cache |-> cache, n |-> n]
    ELSE LET cached == Get(d, "babel_translations") IN
         IF cached # None THEN [rv |-> cached, d |-> d, cache |-> cache, n |-> n]
         ELSE LET gl == get_locale_of(d, cfg, selector, closure)
                  locale == gl.rv
                  translations ==
                      MergeDirectories(Translations(n + 1),
                                       translation_directories(cfg), locale)
              IN [rv |-> translations,
                  d |-> [gl.d EXCEPT !.babel_translations = translations],
                  cache |-> (locale :> translations) @@ cache,
                  n |-> n + 1]

get_translations_of(d, cfg, selector, closure, cache, n) ==
    IF d = None THEN [rv |-> NullTranslations, d |-> d, cache |-> cache, n |-> n]
    ELSE LET cached == Get(d, "babel_translations") IN
         IF cached # None THEN [rv |-> cached, d |-> d, cache |-> cache, n |-> n]
         ELSE LET gl == get_locale_of(d, cfg, selector, closure)
                  locale == gl.rv
              IN IF locale \in DOMAIN cache
                 THEN [rv |-> cache[locale],
                       d |-> [gl.d EXCEPT !.babel_translations = cache[locale]],
                       cache |-> cache, n |-> n]
                 ELSE LET translations ==
                            MergeDirectories(Translations(n + 1),
                                             translation_directories(cfg), locale)
                      IN [rv |-> translations,
                          d |-> [gl.d EXCEPT !.babel_translations = translations],
                          cache |-> cache @@ (locale :> translations),
                          n |-> n + 1]

(***************************************************************************)
(* State after Babel(app) and the registrations the application made while *)
(* it was set up (selectors: the function registered for each purpose, or  *)
(* None): the default configuration, requests that resolved nothing yet,   *)
(* an empty catalog cache.                                                 *)
(***************************************************************************)
ConfigLocales == {"en", "de_DE"}
SelectedLocales == {None, Str("de_DE"), Str("en_US")}
SelectedTimezones == {None, Str("Europe/Vienna"), UTC}
ForcedLocales == {"en_US", "de_DE"}

NoResolution == [k \in Keys |-> None]

\* a call of a translation function or of the lazy string, with its
\* arguments and the catalog get_translations gave it
Called(fn, r, context, string, plural, num, variables, t) ==
    [fn |-> fn, request |-> r, context |-> context, string |-> string,
     plural |-> plural, num |-> num, variables |-> variables, catalog |-> t]

NoCall == Called("none", NoRequest, "", <<>>, <<>>, 0, NoVariables, None)

Kinds == {"time", "date", "datetime"}
Sizes == {"short", "medium", "full", "long"}

\* the key '<kind>.<size>' of the format mapping
SizeKey(key, size) == <<key, size>>

\* Babel.default_date_formats
default_date_formats ==
    [k \in {<<kind>> : kind \in Kinds} \cup (Kinds \X Sizes) |->
        IF Len(k) = 1 THEN Str("medium") ELSE None]

InitConfig ==
    [BABEL_DEFAULT_LOCALE |-> "en", BABEL_DEFAULT_TIMEZONE |-> "UTC",
     BABEL_TRANSLATION_DIRECTORIES |-> <<"translations">>]

NoSelectors == [locale |-> None, timezone |-> None]

\* the state after Babel(app) on an application configured with cfg
InitApp(cfg, requests, selectors) ==
    /\ config = cfg
    /\ locale_selector_func = selectors.locale
    /\ timezone_selector_func = selectors.timezone
    /\ the_locale = None
    /\ the_timezone = None
    /\ request = [r \in requests |-> EmptyRequest]
    /\ babel_translations = <<>>
    /\ loads = 0
    /\ blocks = <<>>
    /\ first_selector = selectors
    /\ refused = {}
    /\ exited = "never"
    /\ resolved = [r \in requests |-> NoResolution]
    /\ date_formats = default_date_formats
    /\ lazy = None
    /\ original = None
    /\ call = NoCall
    /\ result = None

InitBabel(requests, selectors) == InitApp(InitConfig, requests, selectors)

\* the dict of a request argument
Dict(r) == IF r = NoRequest THEN None ELSE request[r]

\* the request dicts after a call that left dict d for request r
Stored(r, d) == IF r = NoRequest THEN request ELSE [request EXCEPT ![r] = d]

\* the history of resolutions after request r resolved key k to v
Noted(r, k, v) ==
    IF r = NoRequest THEN resolved ELSE [resolved EXCEPT ![r][k] = v]

\* an override is open: some open force_locale block has a request
Overridden == \E i \in 1..Len(blocks) : blocks[i].request # NoRequest

(***************************************************************************)
(* The application's own state changes: the configuration and what the     *)
(* registered selectors answer.                                            *)
(***************************************************************************)
SetDefaultLocale(v) ==
    /\ config' = [config EXCEPT !.BABEL_DEFAULT_LOCALE = v]
    /\ UNCHANGED <<date_formats, text_vars, locale_selector_func, timezone_selector_func, the_locale,
                   the_timezone, request, babel_translations, loads, blocks,
                   first_selector, refused, exited, resolved>>

SetDefaultTimezone(v) ==
    /\ config' = [config EXCEPT !.BABEL_DEFAULT_TIMEZONE = v]
    /\ UNCHANGED <<date_formats, text_vars, locale_selector_func, timezone_selector_func, the_locale,
                   the_timezone, request, babel_translations, loads, blocks,
                   first_selector, refused, exited, resolved>>

SetTheLocale(v) ==
    /\ the_locale' = v
    /\ UNCHANGED <<date_formats, text_vars, config, locale_selector_func, timezone_selector_func,
                   the_timezone, request, babel_translations, loads, blocks,
                   first_selector, refused, exited, resolved>>

SetTheTimezone(v) ==
    /\ the_timezone' = v
    /\ UNCHANGED <<date_formats, text_vars, config, locale_selector_func, timezone_selector_func,
                   the_locale, request, babel_translations, loads, blocks,
                   first_selector, refused, exited, resolved>>

(***************************************************************************)
(* Babel.localeselector, Babel.timezoneselector                            *)
(***************************************************************************)
\* registration without the assertion: the last registration wins
register_overwriting(slot, f) == [slot |-> f, rv |-> f]

\* the selector slot after registering f, and what the decorator returns
register(slot, f) ==
    IF slot = None THEN [slot |-> f, rv |-> f]
    ELSE [slot |-> slot, rv |-> Raise("AssertionError")]

\* the history of first registrations
FirstNoted(purpose, f) ==
    IF first_selector[purpose] = None /\ ~Overridden
    THEN [first_selector EXCEPT ![purpose] = f]
    ELSE first_selector

localeselector(f) ==
    /\ locale_selector_func' = register(locale_selector_func, f).slot
    /\ first_selector' = FirstNoted("locale", f)
    /\ refused' = IF register(locale_selector_func, f).rv = f THEN refused
                  ELSE refused \cup {"locale"}
    /\ UNCHANGED <<date_formats, text_vars, config, timezone_selector_func, the_locale, the_timezone,
                   request, babel_translations, loads, blocks, exited, resolved>>

timezoneselector(f) ==
    /\ timezone_selector_func' = register(timezone_selector_func, f).slot
    /\ first_selector' = [first_selector EXCEPT
                            !.timezone = IF @ = None THEN f ELSE @]
    /\ refused' = IF register(timezone_selector_func, f).rv = f THEN refused
                  ELSE refused \cup {"timezone"}
    /\ UNCHANGED <<date_formats, text_vars, config, locale_selector_func, the_locale, the_timezone,
                   request, babel_translations, loads, blocks, exited, resolved>>

(***************************************************************************)
(* get_locale, get_timezone, get_translations, refresh                     *)
(***************************************************************************)
get_locale(r) ==
    LET got == get_locale_of(Dict(r), config, locale_selector_func, the_locale)
    IN /\ request' = Stored(r, got.d)
       /\ resolved' = Noted(r, "babel_locale", got.rv)
       /\ UNCHANGED <<date_formats, text_vars, config, locale_selector_func, timezone_selector_func,
                      the_locale, the_timezone, babel_translations, loads,
                      blocks, first_selector, refused, exited>>

get_timezone(r) ==
    LET got == get_timezone_of(Dict(r), config, timezone_selector_func,
                               the_timezone)
    IN /\ request' = Stored(r, got.d)
       /\ resolved' = Noted(r, "babel_tzinfo", got.rv)
       /\ UNCHANGED <<date_formats, text_vars, config, locale_selector_func, timezone_selector_func,
                      the_locale, the_timezone, babel_translations, loads,
                      blocks, first_selector, refused, exited>>

\* the history of resolutions after get_translations(r) gave got
NotedTranslations(r, got) ==
    IF r = NoRequest THEN resolved
    ELSE [resolved EXCEPT
            ![r].babel_translations = got.rv,
            \* get_locale ran if the catalog was not cached
            ![r].babel_locale =
                IF Get(request[r], "babel_translations") = None
                THEN Get(got.d, "babel_locale") ELSE @]

get_translations(r) ==
    LET got == get_translations_of(Dict(r), config, locale_selector_func,
                                   the_locale, babel_translations, loads)
    IN /\ got.n <= MaxLoads
       /\ request' = Stored(r, got.d)
       /\ babel_translations' = got.cache
       /\ loads' = got.n
       /\ resolved' = NotedTranslations(r, got)
       /\ UNCHANGED <<date_formats, text_vars, config, locale_selector_func, timezone_selector_func,
                      the_locale, the_timezone, blocks, first_selector, refused,
                      exited>>

\* refresh popping the locale and the timezone only
refreshed_keeping_translations(d) ==
    [k \in Keys |-> IF k = "babel_translations" THEN d[k] ELSE Absent]

\* the request dict after refresh: each of the three keys popped
refreshed(d) == [k \in Keys |-> Absent]

refresh(r) ==
    /\ request' = [request EXCEPT ![r] = refreshed(request[r])]
    /\ resolved' = [resolved EXCEPT ![r] = NoResolution]
    /\ UNCHANGED <<date_formats, text_vars, config, locale_selector_func, timezone_selector_func,
                   the_locale, the_timezone, babel_translations, loads,
                   blocks, first_selector, refused, exited>>

(***************************************************************************)
(* The translation functions: each resolves the catalog of its request     *)
(* with get_translations and translates on it.                             *)
(***************************************************************************)
Strings == {Hello, Test}
Percents == <<"200", "%%">>
Plurals == {<<Apple, Apples>>, <<Percent, Percents>>}
Contexts == {"menu"}
Variables == {NoVariables, [name |-> "Peter"], [num |-> "7"]}

\* the effect of a translation function's get_translations(request)
Resolving(r, got) ==
    /\ got.n <= MaxLoads
    /\ request' = Stored(r, got.d)
    /\ babel_translations' = got.cache
    /\ loads' = got.n
    /\ resolved' = NotedTranslations(r, got)
    /\ UNCHANGED <<date_formats, original, config, locale_selector_func, timezone_selector_func,
                   the_locale, the_timezone, blocks, first_selector, refused,
                   exited>>

TranslationsOf(r) ==
    get_translations_of(Dict(r), config, locale_selector_func, the_locale,
                        babel_translations, loads)

gettext(string, r, variables) ==
    LET got == TranslationsOf(r)
    IN /\ Resolving(r, got)
       /\ call' = Called("gettext", r, "", string, <<>>, 0, variables, got.rv)
       /\ result' = gettext_of(got.rv, string, variables)
       /\ UNCHANGED lazy

ngettext(singular, plural, num, r, variables) ==
    LET got == TranslationsOf(r)
    IN /\ Resolving(r, got)
       /\ call' = Called("ngettext", r, "", singular, plural, num, variables,
                         got.rv)
       /\ result' = ngettext_of(got.rv, singular, plural, num, variables)
       /\ UNCHANGED lazy

pgettext(context, string, r, variables) ==
    LET got == TranslationsOf(r)
    IN /\ Resolving(r, got)
       /\ call' = Called("pgettext", r, context, string, <<>>, 0, variables,
                         got.rv)
       /\ result' = pgettext_of(got.rv, context, string, variables)
       /\ UNCHANGED lazy

npgettext(context, singular, plural, num, r, variables) ==
    LET got == TranslationsOf(r)
    IN /\ Resolving(r, got)
       /\ call' = Called("npgettext", r, context, singular, plural, num,
                         variables, got.rv)
       /\ result' = npgettext_of(got.rv, context, singular, plural, num,
                                 variables)
       /\ UNCHANGED lazy

(***************************************************************************)
(* The lazy string.  lazy_gettext and lazy_pgettext wrap the translation   *)
(* function and its arguments; a call with a request evaluates the         *)
(* function for that request and keeps the result; a use as a string       *)
(* reads the result kept, evaluating without a request if there is none.   *)
(* rendered is history: the results of the calls with a request.           *)
(***************************************************************************)
LazyString(func, args, kwargs) ==
    [t |-> "LazyString", func |-> func, args |-> args, kwargs |-> kwargs,
     evaluated |-> FALSE, value |-> None, rendered |-> <<>>]

\* the wrapped function applied to the wrapped arguments on catalog t
Evaluated(l, t) ==
    IF l.func = "gettext" THEN gettext_of(t, l.args[1], l.kwargs)
    ELSE pgettext_of(t, l.args[1], l.args[2], l.kwargs)

\* lazy_gettext evaluating when the lazy string is made
lazy_gettext_of_eager(string, variables) ==
    [LazyString("gettext", <<string>>, variables) EXCEPT
        !.evaluated = TRUE,
        !.value = gettext_of(NullTranslations, string, variables)]

lazy_gettext_of(string, variables) == LazyString("gettext", <<string>>, variables)

lazy_pgettext_of(context, string, variables) ==
    LazyString("pgettext", <<context, string>>, variables)

\* the lazy string after lazy(request) on the catalog t of the request
lazy_called(l, t) ==
    [l EXCEPT !.evaluated = TRUE, !.value = Evaluated(l, t),
              !.rendered = Append(@, Evaluated(l, t))]

\* the lazy string after str(lazy) or lazy.__html__()
lazy_used(l) ==
    IF l.evaluated THEN l
    ELSE [l EXCEPT !.evaluated = TRUE, !.value = Evaluated(l, NullTranslations)]

lazy_gettext(string, variables) ==
    /\ lazy' = lazy_gettext_of(string, variables)
    /\ call' = Called("lazy_gettext", NoRequest, "", string, <<>>, 0, variables,
                      None)
    /\ result' = None
    /\ original' = None
    /\ UNCHANGED <<date_formats, config, locale_selector_func, timezone_selector_func,
                   the_locale, the_timezone, request, babel_translations,
                   loads, blocks, first_selector, refused, exited, resolved>>

lazy_pgettext(context, string, variables) ==
    /\ lazy' = lazy_pgettext_of(context, string, variables)
    /\ call' = Called("lazy_pgettext", NoRequest, context, string, <<>>, 0,
                      variables, None)
    /\ result' = None
    /\ original' = None
    /\ UNCHANGED <<date_formats, config, locale_selector_func, timezone_selector_func,
                   the_locale, the_timezone, request, babel_translations,
                   loads, blocks, first_selector, refused, exited, resolved>>

LazyCall(r) ==
    LET got == TranslationsOf(r)
    IN /\ lazy # None
       /\ Len(lazy.rendered) < MaxCalls
       /\ Resolving(r, got)
       /\ lazy' = lazy_called(lazy, got.rv)
       /\ call' = Called("lazy()", r, "", <<>>, <<>>, 0, NoVariables, got.rv)
       /\ result' = lazy'.value

LazyUse(use) ==
    /\ lazy # None
    /\ lazy' = lazy_used(lazy)
    /\ call' = Called(use, NoRequest, "", <<>>, <<>>, 0, NoVariables, None)
    /\ result' = lazy'.value
    /\ UNCHANGED <<date_formats, original, config, locale_selector_func, timezone_selector_func,
                   the_locale, the_timezone, request, babel_translations,
                   loads, blocks, first_selector, refused, exited, resolved>>

(***************************************************************************)
(* Pickling a lazy string: the state pickled is the function and the       *)
(* arguments the string was made with; loading makes a new lazy string     *)
(* of them.  A comparison forces both sides and compares the strings.      *)
(***************************************************************************)
Bool(b) == [t |-> "bool", v |-> b]

\* pickle.dumps(lazy): what __getstate__ gives
pickled(l) == [func |-> l.func, args |-> l.args, kwargs |-> l.kwargs]

\* pickle.loads(pickled)
unpickled(p) == LazyString(p.func, p.args, p.kwargs)

\* unpickled = pickle.loads(pickle.dumps(lazy_string))
LazyLoads ==
    /\ lazy # None
    /\ original = None
    /\ original' = lazy
    /\ lazy' = unpickled(pickled(lazy))
    /\ call' = Called("pickle.loads", NoRequest, "", <<>>, <<>>, 0, NoVariables,
                      None)
    /\ result' = None
    /\ UNCHANGED <<date_formats, config, locale_selector_func,
                   timezone_selector_func, the_locale, the_timezone, request,
                   babel_translations, loads, blocks, first_selector, refused,
                   exited, resolved>>

\* unpickled == lazy_string
LazyEq ==
    /\ original # None
    /\ lazy' = lazy_used(lazy)
    /\ original' = lazy_used(original)
    /\ call' = Called("==", NoRequest, "", <<>>, <<>>, 0, NoVariables, None)
    /\ result' = Bool(lazy'.value = original'.value)
    /\ UNCHANGED <<date_formats, config, locale_selector_func,
                   timezone_selector_func, the_locale, the_timezone, request,
                   babel_translations, loads, blocks, first_selector, refused,
                   exited, resolved>>

(***************************************************************************)
(* Dates.  A datetime is a day of the month, an hour and a tzinfo (None    *)
(* for a naive one); the minutes play no part.  The zones have the offset  *)
(* from UTC, in hours, that they have in April.                            *)
(***************************************************************************)
datetime(day, hour, tzinfo) == [day |-> day, hour |-> hour, tzinfo |-> tzinfo]

\* tzinfo.utcoffset(datetime), in hours
utcoffset(tzinfo) ==
    CASE tzinfo.zone = "UTC"              -> 0
      [] tzinfo.zone = "Europe/Vienna"    -> 2
      [] tzinfo.zone = "Pacific/Johnston" -> 0 - 10

\* tzinfo.normalize(datetime.astimezone(tzinfo)), datetime an aware one
astimezone(dt, tzinfo) ==
    LET hour == dt.hour - utcoffset(dt.tzinfo) + utcoffset(tzinfo)
    IN CASE hour < 0   -> datetime(dt.day - 1, hour + 24, tzinfo)
         [] hour >= 24 -> datetime(dt.day + 1, hour - 24, tzinfo)
         [] OTHER      -> datetime(dt.day, hour, tzinfo)

\* to_user_timezone, tzinfo what get_timezone returned
to_user_timezone_of(dt, tzinfo) ==
    astimezone(IF dt.tzinfo = None THEN [dt EXCEPT !.tzinfo = UTC] ELSE dt,
               tzinfo)

\* babel.dates: a naive datetime is taken as UTC, and the datetime is
\* converted to tzinfo if one is passed (tzinfo None: not passed)
ensure_datetime_tzinfo(dt, tzinfo) ==
    LET aware == IF dt.tzinfo = None THEN [dt EXCEPT !.tzinfo = UTC] ELSE dt
    IN IF tzinfo = None THEN aware ELSE astimezone(aware, tzinfo)

\* dates.format_datetime(datetime, format, tzinfo=tzinfo, locale=locale)
dates_format_datetime(dt, format, tzinfo, locale) ==
    LET d == ensure_datetime_tzinfo(dt, tzinfo)
    IN [t |-> "str", formatter |-> "datetime", format |-> format,
        locale |-> locale, day |-> d.day, hour |-> d.hour,
        zone |-> d.tzinfo.zone]

\* dates.format_time(time, format, tzinfo=tzinfo, locale=locale), time a
\* datetime
dates_format_time(dt, format, tzinfo, locale) ==
    LET d == ensure_datetime_tzinfo(dt, tzinfo)
    IN [t |-> "str", formatter |-> "time", format |-> format,
        locale |-> locale, hour |-> d.hour, zone |-> d.tzinfo.zone]

\* dates.format_date(date, format, locale=locale): date.date() of a datetime
dates_format_date(dt, format, locale) ==
    [t |-> "str", formatter |-> "date", format |-> format, locale |-> locale,
     day |-> dt.day]

\* _get_format without the lookup of the size
_get_format_of_one_step(key, format, formats) ==
    IF format = None THEN formats[<<key>>] ELSE format

\* _get_format, formats the mapping it reads
_get_format_of(key, format, formats) ==
    LET given == IF format = None THEN formats[<<key>>] ELSE format
    IN IF given.t = "str" /\ given.s \in Sizes
       THEN LET rv == formats[SizeKey(key, given.s)]
            IN IF rv # None THEN rv ELSE given
       ELSE given

\* the mapping _get_format reads for a request
FormatsOf(r) == IF r = NoRequest THEN default_date_formats ELSE date_formats

\* _date_format never passing the timezone
_date_format_of_without_tzinfo(formatter, obj, format, rebase, locale, tzinfo) ==
    CASE formatter = "date" -> dates_format_date(obj, format, locale)
      [] formatter = "datetime" ->
            dates_format_datetime(obj, format, None, locale)
      [] formatter = "time" -> dates_format_time(obj, format, None, locale)

\* _date_format: the formatter called with the timezone iff it is not
\* dates.format_date and rebase is set
_date_format_of(formatter, obj, format, rebase, locale, tzinfo) ==
    CASE formatter = "date" -> dates_format_date(obj, format, locale)
      [] formatter = "datetime" ->
            dates_format_datetime(obj, format,
                                  IF rebase THEN tzinfo ELSE None, locale)
      [] formatter = "time" ->
            dates_format_time(obj, format, IF rebase THEN tzinfo ELSE None,
                              locale)

\* a call of a date formatting function with its arguments
DateCalled(fn, r, dt, format, rebase) ==
    [fn |-> fn, request |-> r, datetime |-> dt, format |-> format,
     rebase |-> rebase]

\* get_locale(request) and then, if the timezone is asked for, 
\* get_timezone(request): the values and the request dict left
LocaleAndTimezoneOf(r, with_timezone) ==
    LET gl == get_locale_of(Dict(r), config, locale_selector_func, the_locale)
        gt == get_timezone_of(gl.d, config, timezone_selector_func,
                              the_timezone)
    IN IF with_timezone THEN [locale |-> gl.rv, tzinfo |-> gt.rv, d |-> gt.d]
       ELSE [locale |-> gl.rv, tzinfo |-> None, d |-> gl.d]

\* the request dicts and the history after such a resolution
DateResolving(r, got) ==
    /\ request' = Stored(r, got.d)
    /\ resolved' =
          IF r = NoRequest THEN resolved
          ELSE [resolved EXCEPT
                  ![r].babel_locale = got.locale,
                  ![r].babel_tzinfo = IF got.tzinfo = None THEN @ ELSE got.tzinfo]
    /\ UNCHANGED <<date_formats, lazy, original, config, locale_selector_func,
                   timezone_selector_func, the_locale, the_timezone,
                   babel_translations, loads, blocks, first_selector, refused,
                   exited>>

format_datetime(dt, format, rebase, r) ==
    LET got == LocaleAndTimezoneOf(r, rebase)
    IN /\ DateResolving(r, got)
       /\ call' = DateCalled("format_datetime", r, dt, format, rebase)
       /\ result' = _date_format_of("datetime", dt,
                                    _get_format_of("datetime", format,
                                                   FormatsOf(r)),
                                    rebase, got.locale, got.tzinfo)

\* format_date: to_user_timezone is called without the request
format_date_of(dt, format, rebase, r, locale) ==
    _date_format_of("date",
                    IF rebase
                    THEN to_user_timezone_of(dt,
                            get_timezone_of(None, config,
                                            timezone_selector_func,
                                            the_timezone).rv)
                    ELSE dt,
                    _get_format_of("date", format, FormatsOf(r)),
                    rebase, locale, None)

format_date(dt, format, rebase, r) ==
    LET got == LocaleAndTimezoneOf(r, FALSE)
    IN /\ DateResolving(r, got)
       /\ call' = DateCalled("format_date", r, dt, format, rebase)
       /\ result' = format_date_of(dt, format, rebase, r, got.locale)

format_time(dt, format, rebase, r) ==
    LET got == LocaleAndTimezoneOf(r, rebase)
    IN /\ DateResolving(r, got)
       /\ call' = DateCalled("format_time", r, dt, format, rebase)
       /\ result' = _date_format_of("time", dt,
                                    _get_format_of("time", format,
                                                   FormatsOf(r)),
                                    rebase, got.locale, got.tzinfo)

\* the application assigning an entry of Babel.date_formats
SetDateFormat(k, v) ==
    /\ date_formats' = [date_formats EXCEPT ![k] = v]
    /\ UNCHANGED <<text_vars, config, locale_selector_func,
                   timezone_selector_func, the_locale, the_timezone, request,
                   babel_translations, loads, blocks, first_selector, refused,
                   exited, resolved>>

(***************************************************************************)
(* force_locale.  A block is the suspended generator: the request, the     *)
(* locale it forces and what it saved at entry.  entry_selector and        *)
(* entry_request are history: the selector slot and the request dict as    *)
(* they were when the block was entered; nested is history too: a block   *)
(* of the same request was entered and left inside this one.              *)
(***************************************************************************)
SavedKeys == {"babel_translations", "babel_locale"}

\* force_locale entering without emptying the request's cached values
force_locale_enter_keeping_cache(locale, r, d, selector) ==
    [block |-> [request |-> r, locale |-> locale,
                orig_locale_selector_func |-> selector,
                orig_attrs |-> [k \in SavedKeys |->
                                  IF r = NoRequest THEN None ELSE Get(d, k)],
                entry_selector |-> selector, entry_request |-> d,
                nested |-> FALSE],
     selector |-> IF r = NoRequest THEN selector ELSE Lambda(locale),
     d |-> d]

\* entry, up to the yield: the block, the selector slot and the dict after
force_locale_enter(locale, r, d, selector) ==
    IF r = NoRequest
    THEN [block |-> [request |-> r, locale |-> locale,
                     orig_locale_selector_func |-> None,
                     orig_attrs |-> [k \in SavedKeys |-> None],
                     entry_selector |-> selector, entry_request |-> None,
                     nested |-> FALSE],
          selector |-> selector, d |-> d]
    ELSE [block |-> [request |-> r, locale |-> locale,
                     orig_locale_selector_func |-> selector,
                     orig_attrs |-> [k \in SavedKeys |-> Get(d, k)],
                     entry_selector |-> selector, entry_request |-> d,
                     nested |-> FALSE],
          selector |-> Lambda(locale),
          d |-> [k \in Keys |-> IF k \in SavedKeys THEN None ELSE d[k]]]

\* force_locale restoring the selector and not the request's values
force_locale_exit_selector_only(block, d, selector) ==
    IF block.request = NoRequest THEN [selector |-> selector, d |-> d]
    ELSE [selector |-> block.orig_locale_selector_func, d |-> d]

\* force_locale restoring the request's values and not the selector
force_locale_exit_values_only(block, d, selector) ==
    IF block.request = NoRequest THEN [selector |-> selector, d |-> d]
    ELSE [selector |-> selector,
          d |-> [k \in Keys |-> IF k \in SavedKeys THEN block.orig_attrs[k]
                                ELSE d[k]]]

\* force_locale leaving no selector registered
force_locale_exit_clearing_selector(block, d, selector) ==
    IF block.request = NoRequest THEN [selector |-> selector, d |-> d]
    ELSE [selector |-> [t |-> "None"],
          d |-> [k \in Keys |-> IF k \in SavedKeys THEN block.orig_attrs[k]
                                ELSE d[k]]]

\* the finally clause: the selector slot and the dict after
force_locale_exit(block, d, selector) ==
    IF block.request = NoRequest THEN [selector |-> selector, d |-> d]
    ELSE [selector |-> block.orig_locale_selector_func,
          d |-> [k \in Keys |-> IF k \in SavedKeys THEN block.orig_attrs[k]
                                ELSE d[k]]]

\* the history of resolutions after a block on r was entered or left
Forgotten(r) ==
    IF r = NoRequest THEN resolved
    ELSE [resolved EXCEPT ![r].babel_locale = None,
                          ![r].babel_translations = None]

ForceLocaleEnter(locale, r) ==
    LET e == force_locale_enter(Str(locale), r, Dict(r), locale_selector_func)
    IN /\ Len(blocks) < MaxDepth
       /\ blocks' = Append(blocks, e.block)
       /\ locale_selector_func' = e.selector
       /\ request' = Stored(r, e.d)
       /\ resolved' = Forgotten(r)
       /\ UNCHANGED <<date_formats, text_vars, config, timezone_selector_func, the_locale, the_timezone,
                      babel_translations, loads, first_selector, refused,
                      exited>>

\* the open blocks after the i-th is left
Left(i) ==
    LET rest == [j \in 1..(Len(blocks) - 1) |->
                    IF j < i THEN blocks[j] ELSE blocks[j + 1]]
    IN IF i > 1 /\ i = Len(blocks)
          /\ blocks[i].request # NoRequest
          /\ blocks[i - 1].request = blocks[i].request
       THEN [rest EXCEPT ![i - 1].nested = TRUE]
       ELSE rest

\* the i-th open block is left, by falling off its end or by an exception
\* raised inside it: its finally clause runs
ForceLocaleLeave(i, raised) ==
    /\ i \in 1..Len(blocks)
    /\ LET block == blocks[i]
           x == force_locale_exit(block, Dict(block.request),
                                  locale_selector_func)
       IN /\ blocks' = Left(i)
          /\ locale_selector_func' = x.selector
          /\ request' = Stored(block.request, x.d)
          /\ exited' = IF raised THEN "exception" ELSE "normally"
          /\ resolved' = Forgotten(block.request)
    /\ UNCHANGED <<date_formats, text_vars, config, timezone_selector_func,
                   the_locale, the_timezone, babel_translations, loads,
                   first_selector, refused>>

\* one flow of control: the block that was entered last is the one left
ForceLocaleExit(raised) == ForceLocaleLeave(Len(blocks), raised)

(***************************************************************************)
(* The scoped override: one flow of control, in which force_locale blocks  *)
(* nest, resolving locales and catalogs for its requests.                  *)
(***************************************************************************)
Init ==
    \E f \in {None, Func("select_locale")} :
        InitBabel({"r1"}, [locale |-> f, timezone |-> None])

Next ==
    \/ \E v \in SelectedLocales : SetTheLocale(v)
    \/ \E r \in RequestArgs : get_locale(r)
    \/ \E r \in RequestArgs : get_translations(r)
    \/ \E r \in Requests : refresh(r)
    \/ \E l \in ForcedLocales, r \in RequestArgs : ForceLocaleEnter(l, r)
    \/ \E raised \in BOOLEAN : ForceLocaleExit(raised)

Spec == Init /\ [][Next]_vars

(***************************************************************************)
(* Resolution and caching: locale, timezone and catalog of one request     *)
(* under a changing configuration and changing selector answers.           *)
(***************************************************************************)
InitResolve == InitBabel({"r1"}, NoSelectors)

NextResolve ==
    \/ \E v \in ConfigLocales : SetDefaultLocale(v)
    \/ \E v \in TimezoneIds : SetDefaultTimezone(v)
    \/ \E v \in SelectedLocales : SetTheLocale(v)
    \/ \E v \in SelectedTimezones : SetTheTimezone(v)
    \/ \E f \in LocaleSelectors : localeselector(f)
    \/ \E f \in TimezoneSelectors : timezoneselector(f)
    \/ \E r \in RequestArgs : get_locale(r)
    \/ \E r \in RequestArgs : get_timezone(r)
    \/ \E r \in RequestArgs : get_translations(r)
    \/ \E r \in Requests : refresh(r)

SpecResolve == InitResolve /\ [][NextResolve]_vars

(***************************************************************************)
(* The translation functions, with and without a request, under a          *)
(* changing configuration and selector.                                    *)
(***************************************************************************)
InitTranslate ==
    \E f \in {None, Func("select_locale")} :
        InitBabel({"r1"}, [locale |-> f, timezone |-> None])

NextTranslate ==
    \/ \E v \in ConfigLocales : SetDefaultLocale(v)
    \/ \E v \in SelectedLocales : SetTheLocale(v)
    \/ \E r \in Requests : refresh(r)
    \/ get_locale(NoRequest)
    \/ get_timezone(NoRequest)
    \/ get_translations(NoRequest)
    \/ \E s \in Strings, r \in RequestArgs, v \in Variables : gettext(s, r, v)
    \/ \E p \in Plurals, n \in 0..MaxNum, r \in RequestArgs, v \in Variables :
          ngettext(p[1], p[2], n, r, v)
    \/ \E c \in Contexts, s \in Strings, r \in RequestArgs, v \in Variables :
          pgettext(c, s, r, v)
    \/ \E c \in Contexts, p \in Plurals, n \in 0..MaxNum, r \in RequestArgs,
          v \in Variables : npgettext(c, p[1], p[2], n, r, v)

SpecTranslate == InitTranslate /\ [][NextTranslate]_vars

(***************************************************************************)
(* A lazy string, made before any request and rendered for the requests    *)
(* that come, under a changing default locale.                             *)
(***************************************************************************)
InitLazy == InitBabel({"r1", "r2"}, NoSelectors)

NextLazy ==
    \/ \E v \in ConfigLocales : SetDefaultLocale(v)
    \/ \E s \in {Yes, Hello}, v \in {NoVariables, [name |-> "Peter"]} :
          lazy_gettext(s, v)
    \/ \E c \in Contexts : lazy_pgettext(c, Yes, NoVariables)
    \/ \E r \in RequestArgs : LazyCall(r)
    \/ \E use \in {"str", "__html__"} : LazyUse(use)

SpecLazy == InitLazy /\ [][NextLazy]_vars

(***************************************************************************)
(* A lazy string pickled and loaded again, the copy compared with the      *)
(* original and rendered for requests, under a changing default locale.    *)
(***************************************************************************)
InitPickle == InitBabel({"r1", "r2"}, NoSelectors)

NextPickle ==
    \/ \E v \in ConfigLocales : SetDefaultLocale(v)
    \/ \E s \in {Yes, Hello}, v \in {NoVariables, [name |-> "Peter"]} :
          lazy_gettext(s, v)
    \/ \E r \in Requests : LazyCall(r)
    \/ \E use \in {"str"} : LazyUse(use)
    \/ LazyLoads
    \/ LazyEq

SpecPickle == InitPickle /\ [][NextPickle]_vars

(***************************************************************************)
(* Date formatting for a request whose timezone comes from a changing      *)
(* configuration, and without a request.                                   *)
(***************************************************************************)
DateTimezones == {"UTC", "Europe/Vienna", "Pacific/Johnston"}

\* early, midday and late on the 12th, naive and aware
Datetimes ==
    {datetime(12, hour, tzinfo) :
        hour \in {0, 13, 23},
        tzinfo \in {None, timezone(Str("Europe/Vienna"))}}

InitDates == InitBabel({"r1"}, NoSelectors)

NextDates ==
    \/ \E v \in DateTimezones : SetDefaultTimezone(v)
    \/ \E r \in Requests : get_timezone(r)
    \/ \E r \in Requests : refresh(r)
    \/ \E dt \in Datetimes, format \in {None, Str("long")}, rebase \in BOOLEAN,
          r \in RequestArgs : format_datetime(dt, format, rebase, r)
    \/ \E dt \in Datetimes, format \in {None, Str("long")}, rebase \in BOOLEAN,
          r \in RequestArgs : format_date(dt, format, rebase, r)
    \/ \E dt \in Datetimes, format \in {None, Str("long")}, rebase \in BOOLEAN,
          r \in RequestArgs : format_time(dt, format, rebase, r)

SpecDates == InitDates /\ [][NextDates]_vars

(***************************************************************************)
(* The format of a date formatting call under a changing format mapping.   *)
(***************************************************************************)
\* the entries of the mapping the application assigns, and what it assigns
FormatEntries ==
    {<<"datetime">>, <<"time">>, <<"datetime", "long">>, <<"date", "medium">>}

FormatValues(k) ==
    IF Len(k) = 1 THEN {Str("medium"), Str("long"), Str("HH:mm")}
    ELSE {None, Str("MMMM d, yyyy")}

GivenFormats == {None, Str("short"), Str("long"), Str("yyyy-MM-dd")}

InitFormats == InitBabel({"r1"}, NoSelectors)

NextFormats ==
    \/ \E k \in FormatEntries : \E v \in FormatValues(k) : SetDateFormat(k, v)
    \/ \E format \in GivenFormats, r \in RequestArgs :
          format_datetime(datetime(12, 13, None), format, TRUE, r)
    \/ \E format \in GivenFormats, r \in RequestArgs :
          format_date(datetime(12, 13, None), format, TRUE, r)
    \/ \E format \in GivenFormats, r \in RequestArgs :
          format_time(datetime(12, 13, None), format, TRUE, r)

SpecFormats == InitFormats /\ [][NextFormats]_vars

(***************************************************************************)
(* Catalogs merged from several directories: the application is            *)
(* configured with a list of directories before it is initialized, one of  *)
(* them holding a French catalog with the plural rule n > 1.               *)
(***************************************************************************)
DirectoryLists ==
    {<<"plural_translations">>,
     <<"plural_translations", "renamed_translations">>,
     <<"renamed_translations", "plural_translations">>,
     <<"translations", "renamed_translations">>}

MergeLocales == {"fr", "de_DE", "en"}

InitMerge ==
    \E dirs \in DirectoryLists :
        InitApp([InitConfig EXCEPT !.BABEL_TRANSLATION_DIRECTORIES = dirs],
                {"r1"}, NoSelectors)

NextMerge ==
    \/ \E v \in MergeLocales : SetDefaultLocale(v)
    \/ \E r \in Requests : refresh(r)
    \/ \E r \in Requests : get_translations(r)
    \/ \E n \in 0..MaxNum, r \in Requests :
          ngettext(Apple, Apples, n, r, NoVariables)

SpecMerge == InitMerge /\ [][NextMerge]_vars

(***************************************************************************)
(* Interleaved handlers: the handlers of two requests of one application   *)
(* take turns at their awaits, so a block of one request may be entered    *)
(* and left while a block of the other is open, in any order.              *)
(***************************************************************************)
InitInterleave == InitBabel({"r1", "r2"}, NoSelectors)

\* a handler with one force_locale block reaches it
HandlerEnter(locale, r) ==
    /\ \A j \in 1..Len(blocks) : blocks[j].request # r
    /\ ForceLocaleEnter(locale, r)

NextInterleave ==
    \/ \E r \in Requests : get_locale(r)
    \/ \E r \in Requests : refresh(r)
    \/ \E l \in ForcedLocales, r \in Requests : HandlerEnter(l, r)
    \/ \E i \in 1..MaxDepth, raised \in BOOLEAN : ForceLocaleLeave(i, raised)

SpecInterleave == InitInterleave /\ [][NextInterleave]_vars

(***************************************************************************)
(* The catalog cache: two requests of one application resolve catalogs,    *)
(* are refreshed and are put inside force_locale blocks.                   *)
(***************************************************************************)
InitCache == InitBabel({"r1", "r2"}, NoSelectors)

NextCache ==
    \/ \E r \in Requests : get_translations(r)
    \/ \E r \in Requests : refresh(r)
    \/ \E l \in ForcedLocales, r \in Requests : HandlerEnter(l, r)
    \/ \E i \in 1..MaxDepth, raised \in BOOLEAN : ForceLocaleLeave(i, raised)

SpecCache == InitCache /\ [][NextCache]_vars

(***************************************************************************)
(* Properties of the scoped override                                       *)
(***************************************************************************)
\* C1: whenever a force_locale block is left, normally or by an exception
\* raised inside it, the locale selector is again the one that was registered
\* when the block was entered (or none), and the request's locale and
\* translations (and timezone) read as they did at entry: empty if they were
\* empty, the same value if they held one.
C1_ForceLocaleRestores ==
    [][\A raised \in BOOLEAN :
         ForceLocaleExit(raised) =>
           LET block == blocks[Len(blocks)]
               r == block.request
           IN r # NoRequest =>
                /\ locale_selector_func' = block.entry_selector
                /\ \A k \in Keys :
                     Get(request'[r], k) = Get(block.entry_request, k)]_vars

\* C1 witness: a block of a request that had its locale and its catalog
\* cached under a registered selector was left by an exception, and the
\* selector and both values are back although the selector now answers
\* something else.
C1_Witness ==
    /\ exited = "exception"
    /\ blocks = <<>>
    /\ locale_selector_func = Func("select_locale")
    /\ request["r1"].babel_locale = Locale("de", "DE")
    /\ request["r1"].babel_translations # Absent
    /\ request["r1"].babel_translations # None
    /\ the_locale = Str("en_US")
    /\ Locale("en", "US") \in DOMAIN babel_translations

\* the innermost open block that has a request
Innermost ==
    LET open == {i \in 1..Len(blocks) : blocks[i].request # NoRequest}
    IN blocks[CHOOSE i \in open : \A j \in open : j <= i]

\* C2: inside a force_locale(L, request) block get_locale(request) returns L,
\* whatever selector is registered and whatever was cached before the block.
C2_ForcedLocaleInside ==
    Overridden =>
        get_locale_of(request[Innermost.request], config, locale_selector_func,
                      the_locale).rv = LocaleParse(Innermost.locale)

\* C2 witness: get_locale returned en_US inside a block entered with de_DE
\* cached and a selector registered that now answers de_DE.
C2_Witness ==
    /\ Overridden
    /\ Innermost.locale = Str("en_US")
    /\ Innermost.entry_selector = Func("select_locale")
    /\ Innermost.entry_request.babel_locale = Locale("de", "DE")
    /\ the_locale = Str("de_DE")
    /\ resolved[Innermost.request].babel_locale = Locale("en", "US")

(***************************************************************************)
(* Properties of resolution and caching                                    *)
(***************************************************************************)
\* what a call on request r would return in the current state
LocaleNow(r) ==
    get_locale_of(request[r], config, locale_selector_func, the_locale).rv

TimezoneNow(r) ==
    get_timezone_of(request[r], config, timezone_selector_func,
                    the_timezone).rv

TranslationsNow(r) ==
    get_translations_of(request[r], config, locale_selector_func, the_locale,
                        babel_translations, loads).rv

\* what the selector and the configuration give at this moment
SelectedLocaleNow ==
    IF locale_selector_func = None \/ Call(locale_selector_func, the_locale) = None
    THEN LocaleParse(Str(config.BABEL_DEFAULT_LOCALE))
    ELSE LocaleParse(Call(locale_selector_func, the_locale))

SelectedTimezoneNow ==
    IF timezone_selector_func = None \/ the_timezone = None
    THEN [t |-> "tzinfo", zone |-> config.BABEL_DEFAULT_TIMEZONE]
    ELSE IF the_timezone.t = "str"
    THEN [t |-> "tzinfo", zone |-> the_timezone.s]
    ELSE the_timezone

\* C3: a locale, timezone or catalog that a request resolved is what the next
\* resolution returns, as long as no refresh and no force_locale came between,
\* whatever the configuration and the selectors say by then; and after
\* refresh(request) the next resolution answers from the selector and the
\* configuration as they are at that moment.
C3_CachedUntilRefresh ==
    \A r \in Requests :
        /\ resolved[r].babel_locale # None =>
               LocaleNow(r) = resolved[r].babel_locale
        /\ resolved[r].babel_tzinfo # None =>
               TimezoneNow(r) = resolved[r].babel_tzinfo
        /\ resolved[r].babel_translations # None =>
               TranslationsNow(r) = resolved[r].babel_translations
        /\ LET d == refreshed(request[r]) IN
             /\ get_locale_of(d, config, locale_selector_func,
                              the_locale).rv = SelectedLocaleNow
             /\ get_timezone_of(d, config, timezone_selector_func,
                                the_timezone).rv = SelectedTimezoneNow
             /\ LET t == get_translations_of(d, config, locale_selector_func,
                             the_locale, babel_translations, loads)
                IN /\ t.d.babel_locale = SelectedLocaleNow
                   /\ t.cache[SelectedLocaleNow] = t.rv

\* C3 witness: the request holds a locale, a timezone and a catalog which a
\* resolution made now would not give, after at least one refresh (a second
\* catalog was built for the single request).
C3_Witness ==
    /\ resolved["r1"].babel_locale \notin {None, SelectedLocaleNow}
    /\ resolved["r1"].babel_tzinfo \notin {None, SelectedTimezoneNow}
    /\ resolved["r1"].babel_translations # None
    /\ resolved["r1"].babel_translations = request["r1"].babel_translations
    /\ loads >= 2

\* C4: on a request with an empty slot get_locale and get_timezone return the
\* configured default, read at that moment, when no selector is registered or
\* the selector returns None, and otherwise what the selector chose (parsed, a
\* timezone object as it is); the result is in the request's slot afterwards.
C4_ResolutionOrder ==
    \A r \in Requests :
        /\ Get(request[r], "babel_locale") = None =>
             LET got == get_locale_of(request[r], config, locale_selector_func,
                                      the_locale)
             IN /\ got.rv = SelectedLocaleNow
                /\ got.d.babel_locale = got.rv
        /\ Get(request[r], "babel_tzinfo") = None =>
             LET got == get_timezone_of(request[r], config,
                                        timezone_selector_func, the_timezone)
             IN /\ got.rv = SelectedTimezoneNow
                /\ got.d.babel_tzinfo = got.rv

\* C4 witness: both selectors are registered; the locale selector's answer
\* was resolved and stored, and the timezone slot is still empty while the
\* timezone selector answers with a timezone object.
C4_Witness ==
    /\ locale_selector_func # None
    /\ the_locale = Str("de_DE")
    /\ config.BABEL_DEFAULT_LOCALE = "en"
    /\ resolved["r1"].babel_locale = Locale("de", "DE")
    /\ request["r1"].babel_locale = Locale("de", "DE")
    /\ timezone_selector_func # None
    /\ the_timezone = UTC
    /\ config.BABEL_DEFAULT_TIMEZONE = "Europe/Vienna"
    /\ request["r1"].babel_tzinfo = Absent

\* C5: for each purpose the selector registered is the first one that was
\* registered, or none; a registration while one is registered raises and
\* leaves it in place; and a registration for one purpose leaves the other
\* purpose's selector alone.
C5_FirstRegistrationWins ==
    /\ [](/\ locale_selector_func = first_selector.locale
          /\ timezone_selector_func = first_selector.timezone)
    /\ [][/\ \A f \in LocaleSelectors :
               localeselector(f) =>
                 /\ timezone_selector_func' = timezone_selector_func
                 /\ locale_selector_func # None =>
                      /\ locale_selector_func' = locale_selector_func
                      /\ "locale" \in refused'
          /\ \A f \in TimezoneSelectors :
               timezoneselector(f) =>
                 /\ locale_selector_func' = locale_selector_func
                 /\ timezone_selector_func # None =>
                      /\ timezone_selector_func' = timezone_selector_func
                      /\ "timezone" \in refused']_vars

\* C5 witness: for both purposes a later registration was refused and the
\* function registered first is the one in place.
C5_Witness ==
    /\ refused = {"locale", "timezone"}
    /\ locale_selector_func = Func("select_locale_2")
    /\ timezone_selector_func = Func("select_timezone")

(***************************************************************************)
(* Properties of the translation functions                                 *)
(***************************************************************************)
Singular == {"gettext", "pgettext"}
Plural == {"ngettext", "npgettext"}

\* the string the call made last looked up in the catalog it was given
LookedUp ==
    CASE call.fn = "gettext"   -> ugettext(call.catalog, call.string)
      [] call.fn = "pgettext"  -> upgettext(call.catalog, call.context,
                                            call.string)
      [] call.fn = "ngettext"  -> ungettext(call.catalog, call.string,
                                            call.plural, call.num)
      [] call.fn = "npgettext" -> unpgettext(call.catalog, call.context,
                                             call.string, call.plural, call.num)

\* the source string of the call made last: the singular one iff num = 1
Source ==
    IF call.fn \in Singular \/ call.num = 1 THEN call.string ELSE call.plural

\* C6 as claimed: each of the four functions returns the looked-up string as
\* it is when the caller gave no keyword arguments, and substitutes exactly
\* when the caller gave some.
C6_NoArgumentsNoSubstitution ==
    call.fn \in Singular \cup Plural =>
        IF DOMAIN call.variables = {} THEN result = Text(LookedUp)
        ELSE result = Formatted(LookedUp, call.variables)

\* C6 amended: gettext and pgettext return the looked-up string as it is when
\* the caller gave no keyword arguments and substitute exactly when the caller
\* gave some; ngettext and npgettext always substitute, with num added to the
\* caller's keyword arguments unless the caller passed a num of its own.
C6_SubstitutionRule ==
    /\ call.fn \in Singular =>
         IF DOMAIN call.variables = {} THEN result = Text(LookedUp)
         ELSE result = Formatted(LookedUp, call.variables)
    /\ call.fn \in Plural =>
         result = Formatted(LookedUp,
                            IF "num" \in DOMAIN call.variables
                            THEN call.variables
                            ELSE call.variables @@ ("num" :> ToString(call.num)))

\* C6 witness: gettext('Test %s', request) gave 'Test %s'.
C6_Witness ==
    /\ call.fn = "gettext"
    /\ call.request = "r1"
    /\ call.string = Test
    /\ call.variables = NoVariables
    /\ result = Text(<<"Test", "%s">>)

\* the tokens of s with the count n in the place of %(num)s
WithCount(s, n) ==
    [i \in 1..Len(s) |-> CASE s[i] = "%(num)s" -> ToString(n)
                           [] s[i] = "%%"      -> "%"
                           [] OTHER            -> s[i]]

\* C7: on a catalog whose plural rule takes 1 to the singular form and every
\* other count to the plural form, ngettext with a request returns the
\* translated singular form for num = 1 and the translated plural form for
\* any other num, num filled in where the form refers to it, without the
\* caller passing num.
C7_PluralSelection ==
    (/\ call.fn = "ngettext"
     /\ call.request # NoRequest
     /\ call.catalog.plural = "n != 1"
     /\ "num" \notin DOMAIN call.variables) =>
        LET translated == Catalog(call.catalog.files)
            singular == IF <<"", call.string, 0>> \in DOMAIN translated
                        THEN translated[<<"", call.string, 0>>]
                        ELSE call.string
            plural == IF <<"", call.string, 1>> \in DOMAIN translated
                      THEN translated[<<"", call.string, 1>>]
                      ELSE call.plural
        IN result = Text(WithCount(IF call.num = 1 THEN singular ELSE plural,
                                   call.num))

\* C7 witness: ngettext('%(num)s Apple', '%(num)s Apples', 2, request) on a
\* German request gave '2 Aepfel'.
C7_Witness ==
    /\ call.fn = "ngettext"
    /\ call.request = "r1"
    /\ call.string = Apple
    /\ call.num = 2
    /\ call.variables = NoVariables
    /\ call.catalog.files # <<>>
    /\ result = Text(<<"2", "Aepfel">>)

TranslationCalls ==
    {"gettext", "ngettext", "pgettext", "npgettext"}

\* C8 as claimed: without a request every translation function returns its
\* source string verbatim (the singular one iff num = 1) and never fails.
C8_VerbatimWithoutRequest ==
    (call.request = NoRequest /\ call.fn \in TranslationCalls) =>
        result = Text(Source)

\* a step that calls one of the resolvers or translation functions with no
\* request (the arguments of a translation call are the ones it records)
WithoutRequest ==
    \/ get_locale(NoRequest)
    \/ get_timezone(NoRequest)
    \/ get_translations(NoRequest)
    \/ /\ call'.fn = "gettext"
       /\ gettext(call'.string, NoRequest, call'.variables)
    \/ /\ call'.fn = "ngettext"
       /\ ngettext(call'.string, call'.plural, call'.num, NoRequest,
                   call'.variables)
    \/ /\ call'.fn = "pgettext"
       /\ pgettext(call'.context, call'.string, NoRequest, call'.variables)
    \/ /\ call'.fn = "npgettext"
       /\ npgettext(call'.context, call'.string, call'.plural, call'.num,
                    NoRequest, call'.variables)

\* C8 amended: without a request get_locale returns 'en', get_timezone UTC and
\* get_translations a no-op catalog, whatever is registered, configured or
\* cached; every translation function then takes its source string
\* untranslated (the singular one iff num = 1) and returns it under the
\* substitution rule it follows with a request: verbatim from gettext and
\* pgettext without keyword arguments, substituted otherwise (only the
\* substitution can fail); and these calls change no selector, no request
\* slot and no entry of the catalog cache.
C8_WithoutRequest ==
    /\ [](/\ get_locale_of(None, config, locale_selector_func,
                           the_locale).rv = Locale("en", "")
          /\ get_timezone_of(None, config, timezone_selector_func,
                             the_timezone).rv = [t |-> "tzinfo", zone |-> "UTC"]
          /\ get_translations_of(None, config, locale_selector_func,
                                 the_locale, babel_translations, loads).rv
                = [t |-> "NullTranslations", id |-> 0, files |-> <<>>,
                   plural |-> "n != 1"]
          /\ (call.request = NoRequest /\ call.fn \in Singular) =>
                IF DOMAIN call.variables = {} THEN result = Text(Source)
                ELSE result = Formatted(Source, call.variables)
          /\ (call.request = NoRequest /\ call.fn \in Plural) =>
                result = Formatted(Source,
                                   IF "num" \in DOMAIN call.variables
                                   THEN call.variables
                                   ELSE call.variables
                                        @@ ("num" :> ToString(call.num))))
    /\ [][WithoutRequest =>
            UNCHANGED <<locale_selector_func, timezone_selector_func, request,
                        babel_translations, loads>>]_vars

\* C8 witness: ngettext without a request returned the English singular with
\* the count filled in while the default locale is German, a selector is
\* registered and answers German, and the request holds the German locale and
\* catalog.
C8_Witness ==
    /\ call.fn = "ngettext"
    /\ call.request = NoRequest
    /\ call.num = 1
    /\ call.variables = NoVariables
    /\ result = Text(<<"1", "Apple">>)
    /\ config.BABEL_DEFAULT_LOCALE = "de_DE"
    /\ locale_selector_func # None
    /\ the_locale = Str("de_DE")
    /\ request["r1"].babel_locale = Locale("de", "DE")
    /\ Locale("de", "DE") \in DOMAIN babel_translations
    /\ request["r1"].babel_translations = babel_translations[Locale("de", "DE")]

(***************************************************************************)
(* Properties of the lazy strings                                          *)
(***************************************************************************)
\* the text a lazy string stands for on catalog t: its source looked up in t,
\* substituted iff it was made with keyword arguments
Rendering(l, t) ==
    LET looked == IF l.func = "gettext" THEN ugettext(t, l.args[1])
                  ELSE upgettext(t, l.args[1], l.args[2])
    IN IF DOMAIN l.kwargs = {} THEN Text(looked)
       ELSE Formatted(looked, l.kwargs)

\* C9: every call of a lazy string with a request evaluates the translation
\* on the catalog of the locale resolved for that request, returns and stores
\* the result, and a string use (str, __html__) after such calls reads the
\* result of the most recent one.
C9_CallEvaluatesPerRequest ==
    [][/\ \A r \in Requests :
            LazyCall(r) =>
                LET locale == request'[r].babel_locale
                    text == Rendering(lazy, babel_translations'[locale])
                IN /\ locale = default_locale(config)
                      \/ locale = request[r].babel_locale
                   /\ result' = text
                   /\ lazy'.value = text
                   /\ lazy'.rendered = Append(lazy.rendered, text)
       /\ \A use \in {"str", "__html__"} :
            (LazyUse(use) /\ lazy.rendered # <<>>) =>
                result' = lazy.rendered[Len(lazy.rendered)]]_vars

\* C9 witness: one lazy 'Yes' called with a German request and then with an
\* English one gave 'Ja' and then 'Yes', and str() of it reads 'Yes'.
C9_Witness ==
    /\ lazy # None
    /\ lazy.rendered = <<Text(<<"Ja">>), Text(<<"Yes">>)>>
    /\ call.fn = "str"
    /\ result = Text(<<"Yes">>)
    /\ request["r1"].babel_locale = Locale("de", "DE")
    /\ request["r2"].babel_locale = Locale("en", "")

\* a step that makes a lazy string
Constructed ==
    \/ /\ call'.fn = "lazy_gettext"
       /\ lazy_gettext(call'.string, call'.variables)
    \/ /\ call'.fn = "lazy_pgettext"
       /\ lazy_pgettext(call'.context, call'.string, call'.variables)

\* making a lazy string evaluates nothing and resolves nothing
CreatedUnevaluated ==
    Constructed =>
        /\ ~lazy'.evaluated
        /\ lazy'.value = [t |-> "None"]
        /\ lazy'.rendered = <<>>
        /\ UNCHANGED <<request, babel_translations, loads, resolved>>

\* C10 as claimed: a lazy string is created unevaluated, is evaluated once,
\* and keeps that result for the rest of its lifetime.
C10_EvaluatedExactlyOnce ==
    [][/\ CreatedUnevaluated
       /\ (~Constructed /\ lazy # None /\ lazy.evaluated) =>
            (lazy'.evaluated /\ lazy'.value = lazy.value)]_vars

\* C10 amended: a lazy string is created unevaluated (making it calls no
\* translation function and resolves nothing), is evaluated at its first use
\* as a string or its first call with a request, and stays evaluated; a use
\* as a string never evaluates it again, but every call with a request does,
\* and replaces the stored result.
C10_EvaluatedAtFirstUse ==
    [][/\ CreatedUnevaluated
       /\ (~Constructed /\ lazy # None /\ lazy.evaluated) => lazy'.evaluated
       /\ \A use \in {"str", "__html__"} :
            LazyUse(use) =>
                /\ lazy'.evaluated
                /\ lazy.evaluated => (lazy'.value = lazy.value
                                      /\ result' = lazy.value)
                /\ UNCHANGED <<request, babel_translations, loads, resolved>>
       /\ \A r \in RequestArgs :
            LazyCall(r) =>
                /\ lazy'.evaluated
                /\ Len(lazy'.rendered) = Len(lazy.rendered) + 1
                /\ lazy'.value = lazy'.rendered[Len(lazy'.rendered)]]_vars

\* C10 witness: a lazy 'Yes' first used as a string, which evaluated it to
\* 'Yes', was then called with a German request and now holds 'Ja'.
C10_Witness ==
    /\ lazy # None
    /\ lazy.evaluated
    /\ lazy.rendered = <<Text(<<"Ja">>)>>
    /\ lazy.value = Text(<<"Ja">>)
    /\ call.fn = "__html__"
    /\ result = Text(<<"Ja">>)
    /\ config.BABEL_DEFAULT_LOCALE = "en"

(***************************************************************************)
(* Properties of pickled lazy strings                                      *)
(***************************************************************************)
\* the text of a lazy string once forced: what it holds, or its text without
\* a request
Forced(l) == IF l.evaluated THEN l.value ELSE Rendering(l, NullTranslations)

\* loading a pickled lazy string makes an unevaluated lazy string of the
\* function and the arguments of the original
RebuiltFromArguments ==
    LazyLoads =>
        /\ lazy'.func = lazy.func
        /\ lazy'.args = lazy.args
        /\ lazy'.kwargs = lazy.kwargs
        /\ ~lazy'.evaluated
        /\ lazy'.value = [t |-> "None"]
        /\ original' = lazy

\* a call of the loaded copy with a request gives the text of the catalog of
\* the request's locale, whatever the original holds
CopyEvaluatesPerRequest ==
    \A r \in Requests :
        (original # None /\ LazyCall(r)) =>
            /\ result' = Rendering(lazy, babel_translations'[request'[r].babel_locale])
            /\ lazy'.value = result'
            /\ original' = original

\* C11 as claimed: the loaded copy of a lazy string, evaluated or not,
\* compares equal to the original, is rebuilt from function and arguments,
\* and evaluates in the locale of the request it is called with.
C11_PickledEqualsOriginal ==
    [][/\ RebuiltFromArguments
       /\ CopyEvaluatesPerRequest
       /\ LazyEq => result' = [t |-> "bool", v |-> TRUE]]_vars

\* C11 amended: the loaded copy is an unevaluated lazy string rebuilt from
\* function and arguments and evaluates in the locale of the request it is
\* called with; it compares equal to the original exactly when the two hold
\* the same text once forced, so always when neither was evaluated with a
\* request, and not when the original holds a translation that differs from
\* the text without a request.
C11_PickleRoundTrip ==
    [][/\ RebuiltFromArguments
       /\ CopyEvaluatesPerRequest
       /\ LazyEq =>
            /\ result' = [t |-> "bool", v |-> Forced(lazy) = Forced(original)]
            /\ (lazy.rendered = <<>> /\ original.rendered = <<>>) =>
                  result'.v]_vars

\* C11 witness: the original was evaluated for an English request ('Yes'),
\* its loaded copy was called with a German request and gave 'Ja'.
C11_Witness ==
    /\ original # None
    /\ original.evaluated
    /\ original.rendered = <<Text(<<"Yes">>)>>
    /\ lazy # None
    /\ lazy.rendered = <<Text(<<"Ja">>)>>
    /\ call.fn = "lazy()"
    /\ result = Text(<<"Ja">>)

(***************************************************************************)
(* Properties of the date formatting functions                             *)
(***************************************************************************)
\* the step is a call of format_datetime, format_time or format_date with
\* the arguments it records
FormatDatetimeCalled ==
    /\ call'.fn = "format_datetime"
    /\ format_datetime(call'.datetime, call'.format, call'.rebase,
                       call'.request)

FormatTimeCalled ==
    /\ call'.fn = "format_time"
    /\ format_time(call'.datetime, call'.format, call'.rebase, call'.request)

FormatDateCalled ==
    /\ call'.fn = "format_date"
    /\ format_date(call'.datetime, call'.format, call'.rebase, call'.request)

\* the timezone get_timezone returns for the request of the call, before it
UserTimezone ==
    get_timezone_of(Dict(call'.request), config, timezone_selector_func,
                    the_timezone).rv

\* the hours of the day after hour, k hours shifted, and the days it moved
ShiftedHour(hour, k) == (hour + k + 24) % 24

ShiftedDay(day, hour, k) ==
    IF hour + k < 0 THEN day - 1 ELSE IF hour + k > 23 THEN day + 1 ELSE day

\* C12: format_datetime and format_time with rebase, given a naive datetime
\* and a request whose timezone is k hours off UTC, format the wall-clock
\* time shifted by k; without rebase no timezone is passed and the time is
\* formatted as it is.
C12_RebaseShiftsByOffset ==
    [][((FormatDatetimeCalled \/ FormatTimeCalled)
        /\ call'.request # NoRequest
        /\ call'.datetime.tzinfo = [t |-> "None"]) =>
          LET dt == call'.datetime
              k == utcoffset(UserTimezone)
          IN IF call'.rebase
             THEN /\ result'.hour = ShiftedHour(dt.hour, k)
                  /\ result'.zone = UserTimezone.zone
                  /\ call'.fn = "format_datetime" =>
                        result'.day = ShiftedDay(dt.day, dt.hour, k)
             ELSE /\ result'.hour = dt.hour
                  /\ result'.zone = "UTC"
                  /\ call'.fn = "format_datetime" => result'.day = dt.day]_vars

\* C12 witness: format_datetime of 13:46 for a request in Europe/Vienna gave
\* 15:46.
C12_Witness ==
    /\ call.fn = "format_datetime"
    /\ call.request = "r1"
    /\ call.rebase
    /\ call.datetime = [day |-> 12, hour |-> 13, tzinfo |-> [t |-> "None"]]
    /\ request["r1"].babel_tzinfo = [t |-> "tzinfo", zone |-> "Europe/Vienna"]
    /\ result.hour = 15
    /\ result.day = 12
    /\ result.zone = "Europe/Vienna"

\* C13 as claimed: format_date with rebase, given a datetime and a request,
\* formats the day the instant has in the timezone get_timezone returns for
\* the request.
C13_DateInUserTimezone ==
    [][(FormatDateCalled /\ call'.request # NoRequest /\ call'.rebase) =>
          LET dt == call'.datetime
              k == utcoffset(UserTimezone)
                   - (IF dt.tzinfo = [t |-> "None"] THEN 0
                      ELSE utcoffset(dt.tzinfo))
          IN result'.day = ShiftedDay(dt.day, dt.hour, k)]_vars

\* the mapping _get_format reads for the request of the call
Mapping ==
    IF call'.request = NoRequest THEN default_date_formats ELSE date_formats

\* the kind of the formatting function called
Kind ==
    CASE call'.fn = "format_datetime" -> "datetime"
      [] call'.fn = "format_date"     -> "date"
      [] call'.fn = "format_time"     -> "time"

\* C15: the format passed to the formatter is the format given, or the
\* mapping's entry for the kind if none is given; if that is a size name, the
\* entry 'kind.size' replaces it unless that entry is None; the mapping is
\* Babel.date_formats with a request and the built-in one without.
C15_EffectiveFormat ==
    [][(FormatDatetimeCalled \/ FormatDateCalled \/ FormatTimeCalled) =>
          LET first == IF call'.format = [t |-> "None"] THEN Mapping[<<Kind>>]
                       ELSE call'.format
              size == first \in {[t |-> "str", s |-> "short"],
                                 [t |-> "str", s |-> "medium"],
                                 [t |-> "str", s |-> "long"],
                                 [t |-> "str", s |-> "full"]}
          IN /\ (size /\ Mapping[<<Kind, first.s>>] # [t |-> "None"]) =>
                   result'.format = Mapping[<<Kind, first.s>>]
             /\ (size /\ Mapping[<<Kind, first.s>>] = [t |-> "None"]) =>
                   result'.format = first
             /\ ~size => result'.format = first]_vars

\* C15 witness: with date_formats['datetime'] = 'long' and
\* date_formats['datetime.long'] a pattern, format_datetime without a format
\* used the pattern.
C15_Witness ==
    /\ call.fn = "format_datetime"
    /\ call.request = "r1"
    /\ call.format = [t |-> "None"]
    /\ date_formats[<<"datetime">>] = [t |-> "str", s |-> "long"]
    /\ date_formats[<<"datetime", "long">>] = [t |-> "str", s |-> "MMMM d, yyyy"]
    /\ result.format = [t |-> "str", s |-> "MMMM d, yyyy"]

(***************************************************************************)
(* Properties of the merged catalogs                                       *)
(***************************************************************************)
\* the plural rules other than the default one that the configured
\* directories provide for a locale
ProvidedRules(locale) ==
    LET dirs == config.BABEL_TRANSLATION_DIRECTORIES
    IN {Load(dirs[i], locale).plural : i \in 1..Len(dirs)} \ {"n != 1"}

\* C14 as claimed: when a directory provides a catalog of the locale with a
\* plural rule other than the default one, the merged catalog has that rule,
\* whatever the position of the directory and whatever the others hold.
C14_MergedPluralRule ==
    \A locale \in DOMAIN babel_translations :
        ProvidedRules(locale) # {} =>
            babel_translations[locale].plural \in ProvidedRules(locale)

(***************************************************************************)
(* Properties of nested and of interleaved overrides                       *)
(***************************************************************************)
\* what get_locale returns for request r after the step
LocaleAfter(r) ==
    get_locale_of(request'[r], config', locale_selector_func', the_locale').rv

\* C16: with an inner force_locale(L2, request) block inside an outer
\* force_locale(L1, request) block, get_locale(request) returns L2 inside the
\* inner block, L1 again once the inner block is left, and after the outer
\* block is left the locale that was resolved before it was entered, under
\* the selector that was registered then.
C16_BlocksNest ==
    [][LET n == Len(blocks) IN
       /\ (n >= 2 /\ blocks[n].request # NoRequest
           /\ blocks[n - 1].request = blocks[n].request) =>
             get_locale_of(request[blocks[n].request], config,
                           locale_selector_func, the_locale).rv
                = LocaleParse(blocks[n].locale)
       /\ \A raised \in BOOLEAN :
            ForceLocaleExit(raised) =>
               LET block == blocks[n]
                   r == block.request
               IN /\ (n >= 2 /\ r # NoRequest /\ blocks[n - 1].request = r) =>
                        LocaleAfter(r) = LocaleParse(blocks[n - 1].locale)
                  /\ (r # NoRequest /\ block.nested
                      /\ \A j \in 1..(n - 1) : blocks[j].request # r) =>
                        /\ locale_selector_func' = block.entry_selector
                        /\ Get(block.entry_request, "babel_locale")
                              # [t |-> "None"] =>
                             LocaleAfter(r)
                                = Get(block.entry_request, "babel_locale")]_vars

\* C16 witness: a request that had resolved 'en' is inside a block forcing
\* de_DE in which an inner block was entered and left, and get_locale has
\* returned de_DE since.
C16_Witness ==
    /\ Len(blocks) = 1
    /\ blocks[1].request = "r1"
    /\ blocks[1].nested
    /\ blocks[1].locale = [t |-> "str", s |-> "de_DE"]
    /\ Get(blocks[1].entry_request, "babel_locale")
          = [t |-> "Locale", language |-> "en", territory |-> ""]
    /\ resolved["r1"].babel_locale
          = [t |-> "Locale", language |-> "de", territory |-> "DE"]


(***************************************************************************)
(* Properties of interleaved handlers                                      *)
(***************************************************************************)
\* the requests that are inside an open block
Inside == {blocks[j].request : j \in 1..Len(blocks)}

\* C17: force_locale is not safe when the handlers of two requests
\* interleave.  While a block is open its lambda is the application's one
\* selector, so a request inside no block that resolves its locale afresh
\* gets the locale forced by the open block and keeps it, also after that
\* block is left, until its own refresh or block.  And a block that is left
\* puts back the selector it found at entry, whatever blocks are still open
\* and whatever was registered since: left before a block entered later, it
\* takes that block's lambda away, and the later block then puts back the
\* lambda of the block that is gone.
C17_InterleavingUnsafe ==
    [][/\ (exited = "never" /\ blocks # <<>>) =>
            locale_selector_func = Lambda(blocks[Len(blocks)].locale)
       /\ \A r \in Requests \ Inside :
            /\ (/\ Get(request[r], "babel_locale") = None
                /\ Get(request'[r], "babel_locale") # None
                /\ locale_selector_func.t = "lambda") =>
                  Get(request'[r], "babel_locale")
                     = LocaleParse(locale_selector_func.locale)
            /\ Get(request[r], "babel_locale") # None =>
                  \/ Get(request'[r], "babel_locale")
                        = Get(request[r], "babel_locale")
                  \/ r \in Inside'
                  \/ resolved'[r] = NoResolution
       /\ \A i \in 1..Len(blocks) :
            (Len(blocks') < Len(blocks) /\ blocks' = Left(i)) =>
               locale_selector_func' = blocks[i].entry_selector]_vars

\* C17 witness: no block has been left yet, the one open block is the one of
\* request r1, forcing de_DE, and request r2, which has never been inside a
\* block, has resolved and holds de_DE although the default locale is en and
\* the application has no selector of its own.
C17_Witness ==
    /\ exited = "never"
    /\ Len(blocks) = 1
    /\ blocks[1].request = "r1"
    /\ blocks[1].locale = Str("de_DE")
    /\ first_selector.locale = None
    /\ config.BABEL_DEFAULT_LOCALE = "en"
    /\ resolved["r2"].babel_locale = Locale("de", "DE")
    /\ request["r2"].babel_locale = Locale("de", "DE")

\* the second interleaving of C17: no block is open, the application
\* registered no selector, and the selector slot holds the lambda of a
\* block, which a fresh resolution of either request then follows
SelectorLost ==
    /\ blocks = <<>>
    /\ first_selector.locale = None
    /\ locale_selector_func = Lambda(Str("de_DE"))
    /\ resolved["r1"].babel_locale = Locale("de", "DE")


(***************************************************************************)
(* Properties of the catalog cache                                         *)
(***************************************************************************)
\* C18: the catalog cache only grows, lazily.  No step removes or replaces an
\* entry; a step adds an entry only for the locale a request without a
\* catalog has just been resolved to, and the request holds that entry; the
\* catalogs built are as many as the entries (the directories are loaded
\* once per locale); and a request that gets a catalog while no block is
\* entered or left holds the cache's entry for its locale, the very entry
\* that was there before if there was one, built for whichever request.
C18_CacheOnlyGrows ==
    [][/\ \A l \in DOMAIN babel_translations :
            /\ l \in DOMAIN babel_translations'
            /\ babel_translations'[l] = babel_translations[l]
       /\ \A l \in DOMAIN babel_translations' \ DOMAIN babel_translations :
            \E r \in Requests :
               /\ Get(request[r], "babel_translations") = None
               /\ request'[r].babel_locale = l
               /\ request'[r].babel_translations = babel_translations'[l]
       /\ loads' = Cardinality(DOMAIN babel_translations')
       /\ \A r \in Requests :
            (/\ blocks' = blocks
             /\ Get(request[r], "babel_translations") = None
             /\ Get(request'[r], "babel_translations") # None) =>
               LET l == request'[r].babel_locale
               IN /\ l \in DOMAIN babel_translations'
                  /\ request'[r].babel_translations = babel_translations'[l]
                  /\ l \in DOMAIN babel_translations =>
                        /\ request'[r].babel_translations
                              = babel_translations[l]
                        /\ loads' = loads]_vars

\* C18 witness: the cache holds the catalogs of en, en_US and de_DE, three
\* catalogs were built, a block was left, and request r2, refreshed or
\* inside a block since, holds the catalog of de_DE that was built for
\* request r1 (r1 holds it too, and r2 resolved it while it was cached).
C18_Witness ==
    /\ loads = 3
    /\ DOMAIN babel_translations
          = {Locale("en", ""), Locale("en", "US"), Locale("de", "DE")}
    /\ exited # "never"
    /\ request["r1"].babel_translations = babel_translations[Locale("de", "DE")]
    /\ resolved["r2"].babel_translations = request["r1"].babel_translations
    /\ request["r2"].babel_translations = request["r1"].babel_translations
    /\ resolved["r1"].babel_translations = None


\* C19: a request that holds a catalog holds a locale, and the catalog is the
\* object the catalog cache holds under that locale, after any sequence of
\* get_locale, get_translations, refresh and force_locale entries and exits.
C19_CatalogOfCachedLocale ==
    \A r \in Requests :
        LET translations == Get(request[r], "babel_translations")
            locale == Get(request[r], "babel_locale")
        IN translations # None =>
              /\ locale # None
              /\ locale \in DOMAIN babel_translations
              /\ babel_translations[locale] = translations

\* C19 witness: inside the inner of two nested blocks, after an earlier block
\* was left, the request holds the locale en_US and its cached catalog while
\* the inner block keeps the pair of de_DE for its exit and the registered
\* selector answers neither.
C19_Witness ==
    /\ Len(blocks) = 2
    /\ exited # "never"
    /\ blocks[2].request = "r1"
    /\ {Locale("en", "US"), Locale("de", "DE")} \subseteq DOMAIN babel_translations
    /\ blocks[2].orig_attrs.babel_locale = Locale("de", "DE")
    /\ blocks[2].orig_attrs.babel_translations
          = babel_translations[Locale("de", "DE")]
    /\ request["r1"].babel_locale = Locale("en", "US")
    /\ request["r1"].babel_translations = babel_translations[Locale("en", "US")]
    /\ first_selector.locale # None
    /\ the_locale = None

====
